---- MODULE Spec2Model ----
(***************************************************************************)
(* muFORTH, src/usb-darwin.c: the OS X USB words.  Every word is a C       *)
(* function that reads its arguments from the interpreter's operand stack, *)
(* calls into IOKit, and either writes its results back to the stack or    *)
(* calls abort_zmsg.  The model keeps the operand stack, the native        *)
(* objects the words acquire and release (service references, plugin       *)
(* interfaces, interface and device interfaces), and a record of the last  *)
(* call: its entry stack, the native steps it made, and how it ended.      *)
(***************************************************************************)
EXTENDS Integers, Sequences, FiniteSets, TLC

(* ---------------------------------------------------------------------- *)
(* Bounds of the model.                                                    *)
(* TLC's integers are 32 bits wide, so the two wide C types are modelled   *)
(* with fewer bits; the truncations are computed with these widths.        *)
(* ---------------------------------------------------------------------- *)
\* bits of a stack cell (a signed machine word) in the model
CellBits == 24
\* bits of UInt32 / SInt32 in the model; narrower than a cell, wider than UInt16
UInt32Bits == 20
\* interface interfaces (handles) the native layer can hand out
MaxIntf == 2
\* device interfaces the native layer can hand out
MaxDev == 1
\* service references and plugin interfaces that can be held at once
MaxSvc == 2
MaxPlug == 2
\* cells that may lie on the stack below a word's arguments
MaxBelow == 1

(* ---------------------------------------------------------------------- *)
(* C integer types.                                                        *)
(* ---------------------------------------------------------------------- *)
UInt8Bits == 8
UInt16Bits == 16

\* conversion of a cell to an unsigned type of the given width
ToUInt(v, bits) == v % (2 ^ bits)

\* conversion of a cell to SInt32
ToSInt32(v) ==
    LET u == ToUInt(v, UInt32Bits)
    IN  IF u >= 2 ^ (UInt32Bits - 1) THEN u - 2 ^ UInt32Bits ELSE u

CellMin == 0 - 2 ^ (CellBits - 1)
CellMax == 2 ^ (CellBits - 1) - 1

(* ---------------------------------------------------------------------- *)
(* The operand stack.  stack[1] is TOP, stack[2] is ST1, and so on;        *)
(* SP[i] is stack[i+1].  DROP(n) moves SP up by n cells.                   *)
(* ---------------------------------------------------------------------- *)
TOP(s) == s[1]
ST1(s) == s[2]
ST2(s) == s[3]
ST3(s) == s[4]
SP(s, i) == s[i + 1]
DROP(s, n) == SubSeq(s, n + 1, Len(s))
SetTOP(s, v) == [s EXCEPT ![1] = v]
SetST1(s, v) == [s EXCEPT ![2] = v]

(* ---------------------------------------------------------------------- *)
(* Native objects.                                                         *)
(* ---------------------------------------------------------------------- *)
IntfIds == 1 .. MaxIntf
DevIds == 1 .. MaxDev

\* the address of an interface interface / device interface, as a cell
IntfCell(h) == 4096 * h
DevCell(d) == 4096 * d + 2048

\* the one interface and device the registry can hold (vendor 0x0483,
\* product 0x5740, interface 0 of configuration 1)
TheInterface ==
    [class |-> "IOUSBInterface", idVendor |-> 1155, idProduct |-> 22336,
     bInterfaceNumber |-> 0, bConfigurationValue |-> 1]
TheDevice ==
    [class |-> "IOUSBDevice", idVendor |-> 1155, idProduct |-> 22336]

\* a matching dictionary for a class, with no properties yet
IOServiceMatching(className) == [class |-> className]

\* set key to the SInt32 value in the dictionary
add_number_match(matching, keyRef, value) ==
    [k \in (DOMAIN matching) \cup {keyRef} |->
        IF k = keyRef THEN ToSInt32(value) ELSE matching[k]]

\* a registry entry matches when it has every property of the dictionary
Matches(entry, matching) ==
    /\ DOMAIN matching \subseteq DOMAIN entry
    /\ \A k \in DOMAIN matching : entry[k] = matching[k]

VARIABLES
    stack,      \* the operand stack, TOP first
    present,    \* whether the USB device is plugged in
    intf,       \* state of each interface interface: "free", "referenced", "open"
    dev,        \* state of each device interface: "free", "referenced"
    svcHeld,    \* io_service_t references held by the process
    plugHeld,   \* plugin interfaces held by the process
    op,         \* the word last executed
    entry,      \* the stack when that word was entered
    log,        \* the native steps that word made, in order, each with its result
    outcome,    \* "none", "return", "abort", or "undefined"
    msg,        \* the message handed to abort_zmsg, "" when none
    nat         \* values exchanged with the native layer by that word

vars == <<stack, present, intf, dev, svcHeld, plugHeld, op, entry, log, outcome, msg, nat>>

Step(name, ok) == [step |-> name, ok |-> ok]

NoNat == [handed |-> 0, got |-> <<>>]

Init ==
    /\ stack = <<>>
    /\ present = TRUE
    /\ intf = [h \in IntfIds |-> "free"]
    /\ dev = [d \in DevIds |-> "free"]
    /\ svcHeld = 0
    /\ plugHeld = 0
    /\ op = "none"
    /\ entry = <<>>
    /\ log = <<>>
    /\ outcome = "none"
    /\ msg = ""
    /\ nat = NoNat

\* what the interpreter leaves below a word's arguments: up to MaxBelow cells
Belows == UNION {[1 .. n -> {7}] : n \in 0 .. MaxBelow}

\* a word can be executed when the process is in a defined state
Callable == outcome # "undefined" /\ stack \in Belows

\* the word returns to the interpreter
Return(name, s0, s1, steps, n) ==
    /\ op' = name
    /\ entry' = s0
    /\ stack' = s1
    /\ log' = steps
    /\ outcome' = "return"
    /\ msg' = ""
    /\ nat' = n

\* the word ends in abort_zmsg(zmsg)
abort_zmsg(name, s0, s1, steps, n, zmsg) ==
    /\ op' = name
    /\ entry' = s0
    /\ stack' = s1
    /\ log' = steps
    /\ outcome' = "abort"
    /\ msg' = zmsg
    /\ nat' = n

(* ---------------------------------------------------------------------- *)
(* Arguments the interpreter passes.                                       *)
(* ---------------------------------------------------------------------- *)
\* 0x0483, 0xFFFF, and a cell that is 0x0483 once converted to SInt32
VendorIds == {1155, 65535, 2 ^ UInt32Bits + 1155}
\* 0x5740, 0xFFFF
ProductIds == {22336, 65535}

\* free interface / device interfaces the native layer can hand out
FreeIntf == {h \in IntfIds : intf[h] = "free"}
FreeDev == {d \in DevIds : dev[d] = "free"}
\* the handles a successful find-device returned and close has not released
OpenIntf == {h \in IntfIds : intf[h] = "open"}
HeldDev == {d \in DevIds : dev[d] = "referenced"}

(* ---------------------------------------------------------------------- *)
(* usb-find-device (vendor-id product-id -- dev -1 | 0), interface level   *)
(* ---------------------------------------------------------------------- *)
\* the matching dictionary built from the two arguments
InterfaceMatching(s) ==
    add_number_match(
      add_number_match(
        add_number_match(
          add_number_match(IOServiceMatching("IOUSBInterface"),
                           "idVendor", ST1(s)),
          "idProduct", TOP(s)),
        "bInterfaceNumber", 0),
      "bConfigurationValue", 1)

\* IOServiceGetMatchingService: a service when the registry has a match
IOServiceGetMatchingService(registry, matching) ==
    \E e \in registry : Matches(e, matching)

\* the stack left when no service matched: DROP(1); TOP = 0
NotFoundStack_noDrop(s) == SetTOP(s, 0)
NotFoundStack(s) == SetTOP(DROP(s, 1), 0)

\* the stack left on success: ST1 = handle; TOP = -1
FoundStack_swapped(s, cell) == SetTOP(SetST1(s, -1), cell)
FoundStack(s, cell) == SetTOP(SetST1(s, cell), -1)

\* plugin interfaces held after QueryInterface returned: Release is called
\* before the result of the query is looked at
PlugAfterQuery_onlyOnSuccess(held, queryOk) == IF queryOk THEN held - 1 ELSE held
PlugAfterQuery(held, queryOk) == held - 1

\* service references held once the word is done with the service it looked
\* up: the word makes no call that gives the reference back
SvcAfterUse(held) == held


Registry == IF present THEN {TheInterface, TheDevice} ELSE {}

mu_usb_find_device ==
    /\ Callable
    /\ \E vid \in VendorIds, pid \in ProductIds :
        LET s0 == <<pid, vid>> \o stack
            found == IOServiceGetMatchingService(Registry, InterfaceMatching(s0))
            sMatch == <<Step("IOServiceMatching", TRUE)>>
            sLook == Append(sMatch, Step("IOServiceGetMatchingService", found))
            sPlug == Append(sLook, Step("IOCreatePlugInInterfaceForService", TRUE))
            sQuery(ok) == Append(Append(sPlug, Step("QueryInterface", ok)),
                                 Step("Release(plugin)", TRUE))
        IN
        \/ \* IOServiceMatching returned NULL
           /\ abort_zmsg("find-device", s0, s0,
                         <<Step("IOServiceMatching", FALSE)>>, NoNat,
                         "IOServiceMatching returned NULL")
           /\ UNCHANGED <<present, intf, dev, svcHeld, plugHeld>>
        \/ \* no matching service
           /\ ~found
           /\ Return("find-device", s0, NotFoundStack(s0), sLook, NoNat)
           /\ UNCHANGED <<present, intf, dev, svcHeld, plugHeld>>
        \/ \* the plugin interface could not be created
           /\ found /\ svcHeld < MaxSvc
           /\ svcHeld' = SvcAfterUse(svcHeld + 1)
           /\ abort_zmsg("find-device", s0, s0,
                         Append(sLook, Step("IOCreatePlugInInterfaceForService", FALSE)),
                         NoNat, "IOCreatePlugInInterfaceForService failed")
           /\ UNCHANGED <<present, intf, dev, plugHeld>>
        \/ \* QueryInterface failed or gave no interface
           /\ found /\ svcHeld < MaxSvc /\ plugHeld < MaxPlug
           /\ svcHeld' = SvcAfterUse(svcHeld + 1)
           /\ plugHeld' = PlugAfterQuery(plugHeld + 1, FALSE)
           /\ abort_zmsg("find-device", s0, s0, sQuery(FALSE), NoNat,
                         "QueryInterface failed")
           /\ UNCHANGED <<present, intf, dev>>
        \/ \* USBInterfaceOpen failed
           /\ found /\ svcHeld < MaxSvc /\ plugHeld < MaxPlug
           /\ \E h \in FreeIntf :
                /\ svcHeld' = SvcAfterUse(svcHeld + 1)
                /\ plugHeld' = PlugAfterQuery(plugHeld + 1, TRUE)
                /\ intf' = [intf EXCEPT ![h] = "referenced"]
                /\ abort_zmsg("find-device", s0, s0,
                              Append(sQuery(TRUE), Step("USBInterfaceOpen", FALSE)),
                              [handed |-> 0, got |-> <<h>>],
                              "USBInterfaceOpen failed")
           /\ UNCHANGED <<present, dev>>
        \/ \* every step succeeded
           /\ found /\ svcHeld < MaxSvc /\ plugHeld < MaxPlug
           /\ \E h \in FreeIntf :
                /\ svcHeld' = SvcAfterUse(svcHeld + 1)
                /\ plugHeld' = PlugAfterQuery(plugHeld + 1, TRUE)
                /\ intf' = [intf EXCEPT ![h] = "open"]
                /\ Return("find-device", s0, FoundStack(s0, IntfCell(h)),
                          Append(sQuery(TRUE), Step("USBInterfaceOpen", TRUE)),
                          [handed |-> 0, got |-> <<h>>])
           /\ UNCHANGED <<present, dev>>

(* ---------------------------------------------------------------------- *)
(* usb-find-device (vendor-id product-id -- handle -1 | 0), device level   *)
(* (compiled WITH_USB_DEVICE)                                              *)
(* ---------------------------------------------------------------------- *)
DeviceMatching(s) ==
    add_number_match(
      add_number_match(IOServiceMatching("IOUSBDevice"), "idVendor", ST1(s)),
      "idProduct", TOP(s))

mu_usb_find_device_WITH_USB_DEVICE ==
    /\ Callable
    /\ \E vid \in VendorIds, pid \in ProductIds :
        LET s0 == <<pid, vid>> \o stack
            found == IOServiceGetMatchingService(Registry, DeviceMatching(s0))
            sMatch == <<Step("IOServiceMatching", TRUE)>>
            sLook == Append(sMatch, Step("IOServiceGetMatchingService", found))
            sPlug == Append(sLook, Step("IOCreatePlugInInterfaceForService", TRUE))
            sQuery(ok) == Append(Append(sPlug, Step("QueryInterface", ok)),
                                 Step("Release(plugin)", TRUE))
        IN
        \/ /\ abort_zmsg("find-device(device)", s0, s0,
                         <<Step("IOServiceMatching", FALSE)>>, NoNat,
                         "IOServiceMatching returned NULL")
           /\ UNCHANGED <<present, intf, dev, svcHeld, plugHeld>>
        \/ /\ ~found
           /\ Return("find-device(device)", s0, NotFoundStack(s0), sLook, NoNat)
           /\ UNCHANGED <<present, intf, dev, svcHeld, plugHeld>>
        \/ /\ found /\ svcHeld < MaxSvc
           /\ svcHeld' = SvcAfterUse(svcHeld + 1)
           /\ abort_zmsg("find-device(device)", s0, s0,
                         Append(sLook, Step("IOCreatePlugInInterfaceForService", FALSE)),
                         NoNat, "IOCreatePlugInInterfaceForService failed")
           /\ UNCHANGED <<present, intf, dev, plugHeld>>
        \/ /\ found /\ svcHeld < MaxSvc /\ plugHeld < MaxPlug
           /\ svcHeld' = SvcAfterUse(svcHeld + 1)
           /\ plugHeld' = PlugAfterQuery(plugHeld + 1, FALSE)
           /\ abort_zmsg("find-device(device)", s0, s0, sQuery(FALSE), NoNat,
                         "QueryInterface failed")
           /\ UNCHANGED <<present, intf, dev>>
        \/ /\ found /\ svcHeld < MaxSvc /\ plugHeld < MaxPlug
           /\ \E d \in FreeDev :
                /\ svcHeld' = SvcAfterUse(svcHeld + 1)
                /\ plugHeld' = PlugAfterQuery(plugHeld + 1, TRUE)
                /\ dev' = [dev EXCEPT ![d] = "referenced"]
                /\ Return("find-device(device)", s0, FoundStack(s0, DevCell(d)),
                          sQuery(TRUE), [handed |-> 0, got |-> <<d>>])
           /\ UNCHANGED <<present, intf>>

(* ---------------------------------------------------------------------- *)
(* Handles on the stack.                                                   *)
(* ---------------------------------------------------------------------- *)
\* the interface interface / device interface a handle cell points to
IntfOf(cell) == cell \div 4096
DevOf(cell) == (cell - 2048) \div 4096

\* byte counts the native layer may report for a transfer of at most limit bytes
NativeCounts(limit) == {n \in {0, 1, limit - 1, limit} : n >= 0 /\ n <= limit}

(* ---------------------------------------------------------------------- *)
(* usb-close (dev)                                                         *)
(* ---------------------------------------------------------------------- *)
\* the interface after the word: closed and released when USBInterfaceClose
\* succeeded, untouched when it failed
IntfAfterClose_alwaysReleased(st, closeOk) == "free"
IntfAfterClose(st, closeOk) == IF closeOk THEN "free" ELSE st

mu_usb_close ==
    /\ Callable
    /\ \E h0 \in OpenIntf :
        LET s0 == <<IntfCell(h0)>> \o stack
            h == IntfOf(TOP(s0))
        IN
        \/ /\ intf' = [intf EXCEPT ![h] = IntfAfterClose(intf[h], FALSE)]
           /\ abort_zmsg("close", s0, s0, <<Step("USBInterfaceClose", FALSE)>>,
                         [handed |-> 0, got |-> <<h>>], "USBInterfaceClose failed")
        \/ /\ intf' = [intf EXCEPT ![h] = IntfAfterClose(intf[h], TRUE)]
           /\ Return("close", s0, DROP(s0, 1),
                     <<Step("USBInterfaceClose", TRUE), Step("Release(interface)", TRUE)>>,
                     [handed |-> 0, got |-> <<h>>])
    /\ UNCHANGED <<present, dev, svcHeld, plugHeld>>

(* ---------------------------------------------------------------------- *)
(* usb-close-device (devhandle)   (compiled WITH_USB_DEVICE)               *)
(* ---------------------------------------------------------------------- *)
mu_usb_close_device ==
    /\ Callable
    /\ \E d0 \in HeldDev :
        LET s0 == <<DevCell(d0)>> \o stack
            d == DevOf(TOP(s0))
        IN
        /\ dev' = [dev EXCEPT ![d] = "free"]
        /\ Return("close-device", s0, DROP(s0, 1),
                  <<Step("Release(device)", TRUE)>>, [handed |-> 0, got |-> <<d>>])
    /\ UNCHANGED <<present, intf, svcHeld, plugHeld>>

(* ---------------------------------------------------------------------- *)
(* Control transfers.                                                      *)
(* ---------------------------------------------------------------------- *)
\* requested lengths: 0, 8, -1, and a cell that is 8 once converted to UInt16
WLengths == {0, 8, -1, 2 ^ UInt16Bits + 8}
Buffers == {512}

\* the request built from the stack
DevRequest(s) ==
    [bmRequestType |-> ToUInt(SP(s, 6), UInt8Bits),
     bRequest      |-> ToUInt(SP(s, 5), UInt8Bits),
     wValue        |-> ToUInt(SP(s, 4), UInt16Bits),
     wIndex        |-> ToUInt(ST3(s), UInt16Bits),
     wLength       |-> ToUInt(ST2(s), UInt16Bits),
     pData         |-> ST1(s)]

\* the arguments of a control transfer on the handle cell, above the stack below
ControlArgs(cell, wLength, below) ==
    <<cell, 512, wLength, 4, 3, 2, 1>> \o below

\* usb-control: the stack when the request failed: DROP(6); TOP = 0
ControlFailStack(s) == SetTOP(DROP(s, 6), 0)

\* usb-control: the stack when the request succeeded: DROP(6); TOP = tr.wLenDone
ControlDoneStack_requested(s, tr, wLenDone) == SetTOP(DROP(s, 6), tr.wLength)
ControlDoneStack(s, tr, wLenDone) == SetTOP(DROP(s, 6), wLenDone)

(* usb-control (bmRequestType bRequest wValue wIndex wLength 'buffer dev - count) *)
mu_usb_control ==
    /\ Callable
    /\ \E h0 \in OpenIntf, wLength \in WLengths :
        LET s0 == ControlArgs(IntfCell(h0), wLength, stack)
            h == IntfOf(TOP(s0))
            tr == DevRequest(s0)
        IN
        \/ abort_zmsg("control", s0, ControlFailStack(s0),
                      <<Step("ControlRequestTO", FALSE)>>,
                      [handed |-> tr.wLength, got |-> <<>>],
                      "ControlRequest failed")
        \/ \E wLenDone \in NativeCounts(tr.wLength) :
             Return("control", s0, ControlDoneStack(s0, tr, wLenDone),
                    <<Step("ControlRequestTO", TRUE)>>,
                    [handed |-> tr.wLength, got |-> <<wLenDone>>])
    /\ UNCHANGED <<present, intf, dev, svcHeld, plugHeld>>

(* usb-device-request (bmRequestType bRequest wValue wIndex wLength 'buffer device) *)
(* (compiled WITH_USB_DEVICE)                                                       *)
mu_usb_device_request ==
    /\ Callable
    /\ \E d0 \in HeldDev, wLength \in WLengths :
        LET s0 == ControlArgs(DevCell(d0), wLength, stack)
            tr == DevRequest(s0)
            s1 == DROP(s0, 7)
        IN
        \/ abort_zmsg("device-request", s0, s1, <<Step("DeviceRequest", FALSE)>>,
                      [handed |-> tr.wLength, got |-> <<>>], "DeviceRequest failed")
        \/ Return("device-request", s0, s1, <<Step("DeviceRequest", TRUE)>>,
                  [handed |-> tr.wLength, got |-> <<>>])
    /\ UNCHANGED <<present, intf, dev, svcHeld, plugHeld>>

(* ---------------------------------------------------------------------- *)
(* usb-get-pipe-properties (pipe# dev -- direction number transferType     *)
(* maxpacketsize interval)   (compiled WITH_USB_EXTRAS)                    *)
(* ---------------------------------------------------------------------- *)
\* pipe numbers: 1, and a cell that is 1 once converted to UInt8
Pipes == {1, 2 ^ UInt8Bits + 1}

\* what GetPipeProperties may report
PipeProperties ==
    {[direction |-> 0, number |-> 1, transfer_type |-> 2,
      max_packet_size |-> 64, interval |-> 0],
     [direction |-> 1, number |-> 2, transfer_type |-> 3,
      max_packet_size |-> 512, interval |-> 10]}

\* DROP(-3), then the five cells are written
PipeStack_reversed(s, p) ==
    <<p.direction, p.number, p.transfer_type, p.max_packet_size, p.interval>>
        \o DROP(s, 2)
PipeStack(s, p) ==
    LET g == <<0, 0, 0>> \o s
    IN  [g EXCEPT ![5] = p.direction,
                  ![4] = p.number,
                  ![3] = p.transfer_type,
                  ![2] = p.max_packet_size,
                  ![1] = p.interval]

\* the stack when GetPipeProperties failed
PipeFailStack(s) == s

mu_usb_get_pipe_properties ==
    /\ Callable
    /\ \E h0 \in OpenIntf, pipe \in Pipes :
        LET s0 == <<IntfCell(h0), pipe>> \o stack
            h == IntfOf(TOP(s0))
            pipeRef == ToUInt(ST1(s0), UInt8Bits)
        IN
        \/ abort_zmsg("get-pipe-properties", s0, PipeFailStack(s0),
                      <<Step("GetPipeProperties", FALSE)>>,
                      [handed |-> pipeRef, got |-> <<>>],
                      "GetPipeProperties failed")
        \/ \E p \in PipeProperties :
             Return("get-pipe-properties", s0, PipeStack(s0, p),
                    <<Step("GetPipeProperties", TRUE)>>,
                    [handed |-> pipeRef,
                     got |-> <<p.direction, p.number, p.transfer_type,
                               p.max_packet_size, p.interval>>])
    /\ UNCHANGED <<present, intf, dev, svcHeld, plugHeld>>

(* ---------------------------------------------------------------------- *)
(* usb-read ( 'buffer size pipe# dev -- #read)                             *)
(* ---------------------------------------------------------------------- *)
\* sizes: 0, 64, -1, and a cell that is 64 once converted to UInt32
Sizes == {0, 64, -1, 2 ^ UInt32Bits + 64}

\* UInt32 size = ST2
ReadSize(s) == ToUInt(ST2(s), UInt32Bits)

\* DROP(3); TOP = size
ReadDoneStack(s, size) == SetTOP(DROP(s, 3), size)

mu_usb_read ==
    /\ Callable
    /\ \E h0 \in OpenIntf, pipe0 \in Pipes, size0 \in Sizes, buf \in Buffers :
        LET s0 == <<IntfCell(h0), pipe0, size0, buf>> \o stack
            h == IntfOf(TOP(s0))
            size == ReadSize(s0)
            pipe == ToUInt(ST1(s0), UInt8Bits)
        IN
        \/ abort_zmsg("read", s0, s0, <<Step("ReadPipeTO", FALSE)>>,
                      [handed |-> size, got |-> <<>>], "ReadPipe failed")
        \/ \E n \in NativeCounts(size) :
             Return("read", s0, ReadDoneStack(s0, n), <<Step("ReadPipeTO", TRUE)>>,
                    [handed |-> size, got |-> <<n>>])
    /\ UNCHANGED <<present, intf, dev, svcHeld, plugHeld>>

(* ---------------------------------------------------------------------- *)
(* usb-write ( 'buffer size pipe# dev)                                     *)
(* ---------------------------------------------------------------------- *)
WriteFailMsg_copied == "ReadPipe failed"
WriteFailMsg == "WritePipe failed"

\* whether the word returns after WritePipeTO gave this result
WriteReturns(ok) == ok

mu_usb_write ==
    /\ Callable
    /\ \E h0 \in OpenIntf, pipe0 \in Pipes, size0 \in Sizes, buf \in Buffers, ok \in BOOLEAN :
        LET s0 == <<IntfCell(h0), pipe0, size0, buf>> \o stack
            h == IntfOf(TOP(s0))
            size == ToUInt(ST2(s0), UInt32Bits)
            pipe == ToUInt(ST1(s0), UInt8Bits)
        IN
        IF WriteReturns(ok)
        THEN Return("write", s0, DROP(s0, 4), <<Step("WritePipeTO", ok)>>,
                    [handed |-> size, got |-> <<>>])
        ELSE abort_zmsg("write", s0, s0, <<Step("WritePipeTO", ok)>>,
                        [handed |-> size, got |-> <<>>], WriteFailMsg)
    /\ UNCHANGED <<present, intf, dev, svcHeld, plugHeld>>

(* ---------------------------------------------------------------------- *)
(* A word applied to a cell that is not a handle the caller holds: the     *)
(* call through the handle reads memory that is not an interface, and     *)
(* nothing is known about the process afterwards.                          *)
(* ---------------------------------------------------------------------- *)
HandleWords == {"close", "control", "get-pipe-properties", "read", "write"}

UseOfInvalidHandle ==
    /\ Callable
    /\ \E w \in HandleWords, h \in IntfIds \ OpenIntf :
        /\ op' = w
        /\ entry' = <<IntfCell(h)>> \o stack
        /\ outcome' = "undefined"
    /\ log' = <<>>
    /\ msg' = ""
    /\ nat' = NoNat
    /\ UNCHANGED <<stack, present, intf, dev, svcHeld, plugHeld>>

(* ---------------------------------------------------------------------- *)
(* The surroundings: the interpreter clears away what the last word left   *)
(* on the stack, and the device is plugged in or pulled out.               *)
(* ---------------------------------------------------------------------- *)
InterpreterDrop ==
    /\ outcome # "undefined"
    /\ \E b \in Belows : b # stack /\ stack' = b
    /\ op' = "none"
    /\ entry' = <<>>
    /\ log' = <<>>
    /\ outcome' = "none"
    /\ msg' = ""
    /\ nat' = NoNat
    /\ UNCHANGED <<present, intf, dev, svcHeld, plugHeld>>

Hotplug ==
    /\ outcome # "undefined"
    /\ present' = ~present
    /\ UNCHANGED <<stack, intf, dev, svcHeld, plugHeld, op, entry, log, outcome, msg, nat>>

Next ==
    \/ mu_usb_find_device
    \/ mu_usb_find_device_WITH_USB_DEVICE
    \/ mu_usb_close
    \/ mu_usb_close_device
    \/ mu_usb_control
    \/ mu_usb_device_request
    \/ mu_usb_get_pipe_properties
    \/ mu_usb_read
    \/ mu_usb_write
    \/ UseOfInvalidHandle
    \/ InterpreterDrop
    \/ Hotplug

Spec == Init /\ [][Next]_vars

TypeOK ==
    /\ \A i \in 1 .. Len(stack) : stack[i] \in CellMin .. CellMax
    /\ present \in BOOLEAN
    /\ \A h \in IntfIds : intf[h] \in {"free", "referenced", "open"}
    /\ \A d \in DevIds : dev[d] \in {"free", "referenced"}
    /\ svcHeld \in 0 .. MaxSvc
    /\ plugHeld \in 0 .. MaxPlug
    /\ outcome \in {"none", "return", "abort", "undefined"}

(* ---------------------------------------------------------------------- *)
(* Properties.                                                             *)
(* ---------------------------------------------------------------------- *)
\* the last word ran to its end (it returned or it called abort_zmsg)
Ended == outcome \in {"return", "abort"}

FindWords == {"find-device", "find-device(device)"}

\* the steps of the log, and where a step appears in it
LogSteps == {log[i].step : i \in 1 .. Len(log)}
Succeeded(name) == \E i \in 1 .. Len(log) : log[i] = Step(name, TRUE)
Failed(name) == \E i \in 1 .. Len(log) : log[i] = Step(name, FALSE)

\* C1: when the service lookup of interface-level find-device finds no
\* matching service, the word returns (it does not abort), its two inputs are
\* replaced by the single cell 0 with the cells below untouched, and it made
\* no plugin creation, no interface query and no interface open.
C1_NotFoundYieldsZero ==
    (op = "find-device" /\ Ended /\ Failed("IOServiceGetMatchingService")) =>
        /\ outcome = "return"
        /\ Len(stack) = Len(entry) - 1
        /\ stack = <<0>> \o DROP(entry, 2)
        /\ LogSteps \cap {"IOCreatePlugInInterfaceForService", "QueryInterface",
                          "USBInterfaceOpen"} = {}

C1_Witness ==
    /\ op = "find-device" /\ outcome = "return"
    /\ Failed("IOServiceGetMatchingService")
    /\ entry = <<65535, 65535, 7>>
    /\ stack = <<0, 7>>

\* C2: interface-level find-device returns with -1 on top exactly when the
\* service lookup, the plugin creation, the interface query and
\* USBInterfaceOpen all succeeded, in that order; then its two inputs are
\* replaced by two cells, the handle of the opened interface below and -1
\* on top, and the interface the handle names is open.
C2_FoundOnlyAfterAllSteps ==
    (op = "find-device" /\ outcome = "return") =>
        LET allOk ==
              /\ Len(log) = 6
              /\ log[2] = Step("IOServiceGetMatchingService", TRUE)
              /\ log[3] = Step("IOCreatePlugInInterfaceForService", TRUE)
              /\ log[4] = Step("QueryInterface", TRUE)
              /\ log[6] = Step("USBInterfaceOpen", TRUE)
        IN  /\ (TOP(stack) = -1) <=> allOk
            /\ allOk =>
                 /\ Len(stack) = Len(entry)
                 /\ DROP(stack, 2) = DROP(entry, 2)
                 /\ ST1(stack) = IntfCell(nat.got[1])
                 /\ nat.got[1] \in IntfIds
                 /\ intf[nat.got[1]] = "open"

C2_Witness ==
    /\ op = "find-device" /\ outcome = "return"
    /\ stack = <<-1, IntfCell(2), 7>>
    /\ intf[2] = "open"

\* C3: in both find-device words, once the plugin interface was created it is
\* released exactly once, directly after the interface query and before any
\* USBInterfaceOpen, whether the query succeeded or failed; no call ends with
\* a plugin interface still held.
C3_PluginReleasedOnce ==
    /\ plugHeld = 0
    /\ (op \in FindWords /\ Ended) =>
         \A i \in 1 .. Len(log) :
            log[i] = Step("IOCreatePlugInInterfaceForService", TRUE) =>
               /\ Len(log) >= i + 2
               /\ log[i + 1].step = "QueryInterface"
               /\ log[i + 2].step = "Release(plugin)"
               /\ Cardinality({j \in 1 .. Len(log) : log[j].step = "Release(plugin)"}) = 1
               /\ \A j \in 1 .. Len(log) :
                     log[j].step = "USBInterfaceOpen" => j > i + 2

C3_Witness ==
    /\ op \in FindWords /\ outcome = "abort"
    /\ Failed("QueryInterface")
    /\ Succeeded("IOCreatePlugInInterfaceForService")
    /\ plugHeld = 0

\* C4: close calls USBInterfaceClose first and Release only when the close
\* succeeded.  When the close fails the word aborts without a Release, the
\* interface stays open and the handle is still on the stack; when it
\* succeeds the interface is released once and exactly the handle is
\* removed from the stack.
C4_CloseThenRelease ==
    (op = "close" /\ Ended) =>
        LET h == IntfOf(TOP(entry))
        IN  \/ /\ outcome = "abort"
               /\ log = <<Step("USBInterfaceClose", FALSE)>>
               /\ intf[h] = "open"
               /\ stack = entry
            \/ /\ outcome = "return"
               /\ log = <<Step("USBInterfaceClose", TRUE), Step("Release(interface)", TRUE)>>
               /\ intf[h] = "free"
               /\ stack = DROP(entry, 1)

C4_Witness ==
    /\ op = "close" /\ outcome = "abort"
    /\ msg = "USBInterfaceClose failed"
    /\ intf[IntfOf(TOP(entry))] = "open"
    /\ TOP(stack) = TOP(entry)

\* C5: control replaces its seven inputs by one cell in both outcomes: 0
\* when the native request failed (and the word aborts), the byte count the
\* native layer reported (wLenDone) when it succeeded, which may be less
\* than the requested wLength.
C5_ControlLeavesCount ==
    (op = "control" /\ Ended) =>
        /\ Len(stack) = Len(entry) - 6
        /\ DROP(stack, 1) = DROP(entry, 7)
        /\ (outcome = "abort") <=> Failed("ControlRequestTO")
        /\ outcome = "abort" => TOP(stack) = 0
        /\ outcome = "return" => Len(nat.got) = 1 /\ TOP(stack) = nat.got[1]

C5_Witness ==
    /\ op = "control" /\ outcome = "return"
    /\ ST2(entry) = 8
    /\ nat.got = <<1>>
    /\ stack = <<1, 7>>

\* C6: a read that succeeds replaces its four inputs by one cell,
\* bytesRead, and bytesRead is never greater than the size the caller
\* passed on the stack.
C6_ReadWithinSize ==
    (op = "read" /\ outcome = "return") =>
        /\ Len(stack) = Len(entry) - 3
        /\ DROP(stack, 1) = DROP(entry, 4)
        /\ TOP(stack) <= ST2(entry)

\* C7: getPipeProperties makes exactly one native query; on success its two
\* inputs are replaced by the five values of that query, direction deepest
\* and interval on top; on failure it aborts with the stack as it was on
\* entry.
C7_PipePropertiesAllOrNothing ==
    (op = "get-pipe-properties" /\ Ended) =>
        /\ Len(log) = 1
        /\ log[1].step = "GetPipeProperties"
        /\ outcome = "return" =>
             /\ log[1].ok
             /\ Len(nat.got) = 5
             /\ Len(stack) = Len(entry) + 3
             /\ \A k \in 1 .. 5 : stack[k] = nat.got[6 - k]
             /\ DROP(stack, 5) = DROP(entry, 2)
        /\ outcome = "abort" =>
             /\ ~log[1].ok
             /\ stack = entry

C7_Witness ==
    /\ op = "get-pipe-properties" /\ outcome = "return"
    /\ stack = <<10, 512, 3, 2, 1, 7>>

\* C8: the set of open interface handles changes only by a find-device that
\* returns a handle (which adds that handle) and by a close that returns
\* (which removes the closed handle); control, read, write and
\* getPipeProperties, returning or aborting, and a close that aborts leave
\* the state of every interface as it was.
C8_OnlyFindAndCloseChangeHandles ==
    [][ /\ (OpenIntf' # OpenIntf) =>
             \/ /\ op' = "find-device" /\ outcome' = "return"
                /\ TOP(stack') = -1
                /\ IntfOf(ST1(stack')) \notin OpenIntf
                /\ OpenIntf' = OpenIntf \cup {IntfOf(ST1(stack'))}
             \/ /\ op' = "close" /\ outcome' = "return"
                /\ IntfOf(TOP(entry')) \in OpenIntf
                /\ OpenIntf' = OpenIntf \ {IntfOf(TOP(entry'))}
        /\ (\/ op' \in {"control", "read", "write", "get-pipe-properties"}
            \/ (op' = "close" /\ outcome' = "abort")) => intf' = intf
      ]_vars

C8_Witness ==
    /\ op = "close" /\ outcome = "abort"
    /\ OpenIntf = IntfIds

\* the step an abort message names
StepNamedBy(zmsg) ==
    CASE zmsg = "IOServiceMatching returned NULL" -> "IOServiceMatching"
      [] zmsg = "IOCreatePlugInInterfaceForService failed" -> "IOCreatePlugInInterfaceForService"
      [] zmsg = "QueryInterface failed" -> "QueryInterface"
      [] zmsg = "USBInterfaceOpen failed" -> "USBInterfaceOpen"
      [] zmsg = "USBInterfaceClose failed" -> "USBInterfaceClose"
      [] zmsg = "ControlRequest failed" -> "ControlRequestTO"
      [] zmsg = "DeviceRequest failed" -> "DeviceRequest"
      [] zmsg = "GetPipeProperties failed" -> "GetPipeProperties"
      [] zmsg = "ReadPipe failed" -> "ReadPipeTO"
      [] zmsg = "WritePipe failed" -> "WritePipeTO"
      [] OTHER -> "none"

\* releases report no result; the plugin is released after a failed query too
ReleaseSteps == {"Release(plugin)", "Release(interface)", "Release(device)"}

\* C9: after a native step that fails the call makes no further native step
\* but a release, and it ends in an abort whose message names the failed
\* step; no step is made twice in a call; a word that returns made no
\* failing step, except find-device whose lookup found no service; every
\* abort follows a failed step.
C9_NativeFailureAborts ==
    Ended =>
        /\ \A i \in 1 .. Len(log) :
              ~log[i].ok =>
                 /\ \A j \in i + 1 .. Len(log) : log[j].step \in ReleaseSteps
                 /\ \/ outcome = "abort" /\ StepNamedBy(msg) = log[i].step
                    \/ /\ outcome = "return"
                       /\ op \in FindWords
                       /\ log[i].step = "IOServiceGetMatchingService"
                       /\ TOP(stack) = 0
        /\ \A i, j \in 1 .. Len(log) : i # j => log[i].step # log[j].step
        /\ outcome = "abort" => \E i \in 1 .. Len(log) : ~log[i].ok

C9_Witness ==
    /\ op = "write" /\ outcome = "abort"
    /\ log = <<Step("WritePipeTO", FALSE)>>
    /\ msg = "WritePipe failed"

\* C10: the service reference the lookup of find-device obtained is no longer
\* held once a find-device call has ended, so that find-device/close cycles
\* do not pile up held service references.
C10_ServiceReleased ==
    Ended => svcHeld = 0
====
